---- MODULE Spec2Model ----
(***************************************************************************)
(* Model of the OpenMensa client library (src/src/lib.rs).                 *)
(*                                                                         *)
(* The library is a typed fetch-and-filter layer: every public operation   *)
(* issues one HTTP GET through fetch_from_api, decodes the body as a JSON  *)
(* array of records and (for the canteen queries) filters the decoded list *)
(* in memory.  The model keeps the upstream answer (transport outcome,     *)
(* status code, body) as state, and one action per public operation.       *)
(*                                                                         *)
(* Conventions: Option<T> is a sequence of length 0 (None) or 1 (Some);    *)
(* a JSON object is a record over all keys whose fields are Options (key   *)
(* absent / key present with a value); strings that the claims take apart  *)
(* (canteen names) are sequences of one-character strings.                 *)
(***************************************************************************)
EXTENDS Integers, Sequences, FiniteSets, TLC

VARIABLES
    net,      \* what the upstream answers to the next GET request
    pc,       \* "idle": no call in progress; "done": a call has returned
    op,       \* name of the operation that returned
    args,     \* its arguments
    sent,     \* the GET requests (URLs) issued by that invocation, in order
    result    \* its return value (Result<_, reqwest::Error>)

vars == <<net, pc, op, args, sent, result>>

---------------------------------------------------------------------------
(* Bounds of the model *)

MaxLen == 2     \* longest upstream JSON array
MaxArgs == 2    \* longest vector of ids / names / locations passed to a query

---------------------------------------------------------------------------
(* Value domains *)

SeqsUpTo(S, n) == UNION {[1..k -> S] : k \in 0..n}

None == <<>>
Some(x) == <<x>>

Ids == {1, 2}
Names == { <<"T", ",", "A">>, <<"C">> }
Cities == {"Dresden", "dresden"}
Addresses == {"Mommsenstr. 13"}
Coordinates == {<<51, 13>>}
MealNames == { <<"S", "o", "u", "p">> }
Categories == {"vegan"}
Amounts == {2}
Notes == {<<>>, <<"A1">>}
Dates == {"2024-01-15", "2024-01-16"}
Statuses == {200, 404}

\* struct Canteen
Canteen ==
    [id : Ids, name : Names, city : Cities, address : Addresses,
     coordinates : {None} \cup {Some(c) : c \in Coordinates}]

\* Canteens handed to get_meals (only the id is read)
MealsCanteens == {c \in Canteen : c.city = "Dresden" /\ c.coordinates = None}

\* struct Prices
Prices ==
    [students : {None} \cup {Some(a) : a \in Amounts},
     employees : {None}, pupils : {None}, others : {None}]

\* struct Meal
Meal ==
    [id : {1}, name : MealNames, category : Categories, prices : Prices,
     notes : Notes]

\* JSON objects the upstream may send for a canteen: complete ones, with
\* the coordinates present or absent, and ones whose name is missing.
CanteenJson ==
    [id : {Some(i) : i \in Ids},
     name : {Some(n) : n \in Names},
     city : {Some(c) : c \in Cities},
     address : {Some(a) : a \in Addresses},
     coordinates : {None} \cup {Some(c) : c \in Coordinates},
     category : {None}, prices : {None}, notes : {None}]
    \cup
    [id : {Some(i) : i \in Ids},
     name : {None},
     city : {Some(c) : c \in Cities},
     address : {Some(a) : a \in Addresses},
     coordinates : {None},
     category : {None}, prices : {None}, notes : {None}]

\* JSON objects the upstream may send for a meal: name may be missing.
MealJson ==
    [id : {Some(1)},
     name : {None} \cup {Some(n) : n \in MealNames},
     city : {None}, address : {None}, coordinates : {None},
     category : {Some(c) : c \in Categories},
     prices : {Some(p) : p \in Prices},
     notes : {Some(n) : n \in Notes}]

\* Response bodies: not JSON at all, a JSON value that is no array, or a
\* JSON array of objects.
Bodies ==
    [kind : {"garbage", "object"}, items : {<<>>}]
    \cup [kind : {"array"}, items : SeqsUpTo(CanteenJson, MaxLen)]
    \cup [kind : {"array"}, items : SeqsUpTo(MealJson, MaxLen)]

\* Answers of the network to one GET: the transport fails, or a response
\* with a status code and a body arrives.
Nets ==
    [transport : {"error"}, status : {0}, body : {[kind |-> "garbage", items |-> <<>>]}]
    \cup [transport : {"ok"}, status : Statuses, body : Bodies]

---------------------------------------------------------------------------
(* Results and errors *)

Ok(v) == [ok |-> TRUE, val |-> v, err |-> [kind |-> "none", status |-> None]]
Err(e) == [ok |-> FALSE, val |-> <<>>, err |-> e]

\* reqwest::Error: a kind and an optional status code
TransportError == [kind |-> "transport", status |-> None]
DecodeError == [kind |-> "decode", status |-> None]

---------------------------------------------------------------------------
(* Decoding: serde's derived Deserialize for the two record types *)

\* Canteen: id, name, city, address are required; coordinates is an Option
\* (an absent key decodes to None); unknown keys are ignored.
DeserializeCanteen(o) ==
    IF o.id = None \/ o.name = None \/ o.city = None \/ o.address = None
    THEN None
    ELSE Some([id |-> o.id[1], name |-> o.name[1], city |-> o.city[1],
               address |-> o.address[1], coordinates |-> o.coordinates])

\* A decoder that fills a missing name with the empty string.
DeserializeMealDefaultName(o) ==
    IF o.id = None \/ o.category = None \/ o.prices = None \/ o.notes = None
    THEN None
    ELSE Some([id |-> o.id[1],
               name |-> IF o.name = None THEN <<>> ELSE o.name[1],
               category |-> o.category[1], prices |-> o.prices[1],
               notes |-> o.notes[1]])

\* Meal: id, name, category, prices, notes are all required.
DeserializeMeal(o) ==
    IF o.id = None \/ o.name = None \/ o.category = None
       \/ o.prices = None \/ o.notes = None
    THEN None
    ELSE Some([id |-> o.id[1], name |-> o.name[1], category |-> o.category[1],
               prices |-> o.prices[1], notes |-> o.notes[1]])

Deserialize(T, o) ==
    IF T = "Canteen" THEN DeserializeCanteen(o) ELSE DeserializeMeal(o)

\* Vec<T>: the elements are decoded in order; the first element that does
\* not decode fails the whole vector.
RECURSIVE DeserializeVec(_, _)
DeserializeVec(T, items) ==
    IF items = <<>> THEN Ok(<<>>)
    ELSE LET head == Deserialize(T, Head(items))
         IN IF head = None THEN Err(DecodeError)
            ELSE LET rest == DeserializeVec(T, Tail(items))
                 IN IF rest.ok THEN Ok(<<head[1]>> \o rest.val) ELSE rest

\* Response::json::<Vec<T>>(): the body must be JSON, and a JSON array.
json(T, body) ==
    IF body.kind # "array" THEN Err(DecodeError)
    ELSE DeserializeVec(T, body.items)

---------------------------------------------------------------------------
(* Fetch gateway *)

CanteensUrl == <<"https://openmensa.org/api/v2/canteens">>

\* format!("https://openmensa.org/api/v2/canteens/{}/days/{}/meals", id, date)
MenuUrl(canteen_id, date) ==
    <<"https://openmensa.org/api/v2/canteens/", canteen_id, "/days/", date, "/meals">>

\* reqwest::get: a GET request for the URL
Get(url) == [method |-> "GET", url |-> url]

\* A fetch that asks a second time when the first attempt fails.
fetch_from_api_retry(T, url, n) ==
    LET r == IF n.transport # "ok" THEN Err(TransportError) ELSE json(T, n.body)
    IN [sent |-> IF r.ok THEN <<Get(url)>> ELSE <<Get(url), Get(url)>>, result |-> r]

\* reqwest::get(url).await?.json::<T>().await? : one GET; a transport error
\* is returned as is; otherwise the body is decoded whatever the status code
\* of the response is.
fetch_from_api(T, url, n) ==
    [sent |-> <<Get(url)>>,
     result |-> IF n.transport # "ok" THEN Err(TransportError)
                ELSE json(T, n.body)]

get_all_canteens(n) == fetch_from_api("Canteen", CanteensUrl, n)

\* get_meals that answers an empty list when the fetch fails.
get_meals_or_default(canteen, date, n) ==
    LET f == fetch_from_api("Meal", MenuUrl(canteen.id, date), n)
    IN [sent |-> f.sent, result |-> IF f.result.ok THEN f.result ELSE Ok(<<>>)]

get_meals(canteen, date, n) ==
    fetch_from_api("Meal", MenuUrl(canteen.id, date), n)

---------------------------------------------------------------------------
(* Canteen query layer *)

\* Vec::contains
Contains(v, x) == \E i \in DOMAIN v : v[i] = x

\* Iterator::find, the predicate given by the set idx of positions of L
\* where it holds: the element at the first such position
Find(L, idx) ==
    IF idx = {} THEN None
    ELSE Some(L[CHOOSE i \in idx : \A j \in idx : i <= j])

\* The element at the last position where the predicate holds.
FindLast(L, idx) ==
    IF idx = {} THEN None
    ELSE Some(L[CHOOSE i \in idx : \A j \in idx : i >= j])

\* Iterator::filter(..).collect(), the predicate given by the set idx of
\* positions of L where it holds: L is walked from position i on and the
\* elements at positions in idx are kept
RECURSIVE FilterFrom(_, _, _)
FilterFrom(L, idx, i) ==
    IF i > Len(L) THEN <<>>
    ELSE (IF i \in idx THEN <<L[i]>> ELSE <<>>) \o FilterFrom(L, idx, i + 1)

Filter(L, idx) == FilterFrom(L, idx, 1)

\* `let canteens = get_all_canteens().await?; Ok(v)`: the error of the fetch
\* is returned as it is, otherwise Ok(v); the requests are those of the fetch
Answer(f, v) ==
    [sent |-> f.sent, result |-> IF f.result.ok THEN Ok(v) ELSE f.result]

\* An answer that turns the error of the fetch into an empty list.
AnswerOrDefault(f, v) ==
    [sent |-> f.sent, result |-> IF f.result.ok THEN Ok(v) ELSE Ok(<<>>)]

get_canteen_by_id_last(id, n) ==
    LET f == get_all_canteens(n)
        L == f.result.val
    IN Answer(f, FindLast(L, {i \in DOMAIN L : L[i].id = id}))

get_canteen_by_id(id, n) ==
    LET f == get_all_canteens(n)
        L == f.result.val
    IN Answer(f, Find(L, {i \in DOMAIN L : L[i].id = id}))

\* One lookup per requested id, in the order of the ids.
RECURSIVE LookupEach(_, _)
LookupEach(ids, L) ==
    IF ids = <<>> THEN <<>>
    ELSE Filter(L, {i \in DOMAIN L : L[i].id = Head(ids)})
         \o LookupEach(Tail(ids), L)

get_canteens_by_ids_each(ids, n) ==
    LET f == get_all_canteens(n)
    IN Answer(f, LookupEach(ids, f.result.val))

get_canteens_by_ids(ids, n) ==
    LET f == get_all_canteens(n)
        L == f.result.val
    IN Answer(f, Filter(L, {i \in DOMAIN L : Contains(ids, L[i].id)}))

get_canteen_by_name_last(name, n) ==
    LET f == get_all_canteens(n)
        L == f.result.val
    IN Answer(f, FindLast(L, {i \in DOMAIN L : L[i].name = name}))

get_canteen_by_name(name, n) ==
    LET f == get_all_canteens(n)
        L == f.result.val
    IN Answer(f, Find(L, {i \in DOMAIN L : L[i].name = name}))

get_canteens_by_names(names, n) ==
    LET f == get_all_canteens(n)
        L == f.result.val
    IN Answer(f, Filter(L, {i \in DOMAIN L : Contains(names, L[i].name)}))

\* name.split(',').nth(1).unwrap_or(""): the text between the first and the
\* second comma, empty when there is no comma.
RECURSIVE UpToComma(_)
UpToComma(s) ==
    IF s = <<>> \/ Head(s) = "," THEN <<>>
    ELSE <<Head(s)>> \o UpToComma(Tail(s))

RECURSIVE AfterComma(_)
AfterComma(s) ==
    IF s = <<>> THEN None
    ELSE IF Head(s) = "," THEN Some(Tail(s))
    ELSE AfterComma(Tail(s))

SecondSegment(s) ==
    IF AfterComma(s) = None THEN <<>> ELSE UpToComma(AfterComma(s)[1])

WithDerivedName(c) == [c EXCEPT !.name = SecondSegment(c.name)]

RECURSIVE MapDerivedName(_)
MapDerivedName(L) ==
    IF L = <<>> THEN <<>>
    ELSE <<WithDerivedName(Head(L))>> \o MapDerivedName(Tail(L))

\* The city filter that also rewrites the name to its second segment.
get_canteens_by_location_derived(location, n) ==
    LET f == get_all_canteens(n)
        L == f.result.val
    IN Answer(f, MapDerivedName(Filter(L, {i \in DOMAIN L : L[i].city = location})))

\* The city filter that answers an empty list when the fetch fails.
get_canteens_by_location_or_default(location, n) ==
    LET f == get_all_canteens(n)
        L == f.result.val
    IN AnswerOrDefault(f, Filter(L, {i \in DOMAIN L : L[i].city = location}))

get_canteens_by_location(location, n) ==
    LET f == get_all_canteens(n)
        L == f.result.val
    IN Answer(f, Filter(L, {i \in DOMAIN L : L[i].city = location}))

\* City comparison that ignores the case of the letters.
Lower(s) == IF s = "Dresden" THEN "dresden" ELSE s

get_canteens_by_locations_nocase(locations, n) ==
    LET f == get_all_canteens(n)
        L == f.result.val
    IN Answer(f, Filter(L, {i \in DOMAIN L :
                   \E k \in DOMAIN locations : Lower(locations[k]) = Lower(L[i].city)}))

get_canteens_by_locations(locations, n) ==
    LET f == get_all_canteens(n)
        L == f.result.val
    IN Answer(f, Filter(L, {i \in DOMAIN L : Contains(locations, L[i].city)}))

---------------------------------------------------------------------------
(* The state machine: the upstream's answer is fixed by Init; each action  *)
(* is one complete invocation of a public operation.                       *)

NoArgs == <<>>

Init ==
    /\ net \in Nets
    /\ pc = "idle"
    /\ op = "none"
    /\ args = NoArgs
    /\ sent = <<>>
    /\ result = Ok(<<>>)

Returned(name, a, r) ==
    /\ pc' = "done"
    /\ op' = name
    /\ args' = a
    /\ sent' = r.sent
    /\ result' = r.result
    /\ UNCHANGED net

GetAllCanteens ==
    /\ pc = "idle"
    /\ Returned("get_all_canteens", NoArgs, get_all_canteens(net))

GetMeals ==
    /\ pc = "idle"
    /\ \E canteen \in MealsCanteens, date \in Dates :
         Returned("get_meals", [canteen |-> canteen, date |-> date],
                  get_meals(canteen, date, net))

GetCanteenById ==
    /\ pc = "idle"
    /\ \E id \in Ids :
         Returned("get_canteen_by_id", id, get_canteen_by_id(id, net))

GetCanteensByIds ==
    /\ pc = "idle"
    /\ \E ids \in SeqsUpTo(Ids, MaxArgs) :
         Returned("get_canteens_by_ids", ids, get_canteens_by_ids(ids, net))

GetCanteenByName ==
    /\ pc = "idle"
    /\ \E name \in Names :
         Returned("get_canteen_by_name", name, get_canteen_by_name(name, net))

GetCanteensByNames ==
    /\ pc = "idle"
    /\ \E names \in SeqsUpTo(Names, MaxArgs) :
         Returned("get_canteens_by_names", names, get_canteens_by_names(names, net))

GetCanteensByLocation ==
    /\ pc = "idle"
    /\ \E location \in Cities :
         Returned("get_canteens_by_location", location,
                  get_canteens_by_location(location, net))

GetCanteensByLocations ==
    /\ pc = "idle"
    /\ \E locations \in SeqsUpTo(Cities, MaxArgs) :
         Returned("get_canteens_by_locations", locations,
                  get_canteens_by_locations(locations, net))

\* The caller takes the result; the library keeps no state between calls.
Return ==
    /\ pc = "done"
    /\ pc' = "idle"
    /\ op' = "none"
    /\ args' = NoArgs
    /\ sent' = <<>>
    /\ result' = Ok(<<>>)
    /\ UNCHANGED net

Next ==
    \/ GetAllCanteens
    \/ GetMeals
    \/ GetCanteenById
    \/ GetCanteensByIds
    \/ GetCanteenByName
    \/ GetCanteensByNames
    \/ GetCanteensByLocation
    \/ GetCanteensByLocations
    \/ Return

Spec == Init /\ [][Next]_vars

---------------------------------------------------------------------------
(* Properties *)

IsSuccess(status) == status >= 200 /\ status < 300

Done(name) == pc = "done" /\ op = name

\* What the fetch of the canteen list returns for the upstream's answer
Fetched == get_all_canteens(net).result

\* What the fetch of the finished invocation returned
FetchedFor ==
    IF op = "get_meals"
    THEN fetch_from_api("Meal", MenuUrl(args.canteen.id, args.date), net).result
    ELSE Fetched

QueryOps ==
    {"get_canteen_by_id", "get_canteens_by_ids", "get_canteen_by_name",
     "get_canteens_by_names", "get_canteens_by_location",
     "get_canteens_by_locations", "get_meals"}

\* The k-th smallest of a set of positions
Kth(idx, k) == CHOOSE i \in idx : Cardinality({j \in idx : j <= i}) = k

\* R is L restricted to the positions idx: every one of them once, nothing
\* else, in the order of L
IsFiltered(L, idx, R) ==
    /\ Len(R) = Cardinality(idx)
    /\ \A k \in DOMAIN R : R[k] = L[Kth(idx, k)]

DistinctIds(L) == \A i, j \in DOMAIN L : L[i].id = L[j].id => i = j

\* C1: a response with a non-success status code makes the call fail with a
\* status error carrying that code; nothing decoded from the body is returned.
C1_StatusFailureCarriesCode ==
    (pc = "done" /\ net.transport = "ok" /\ ~IsSuccess(net.status)) =>
        /\ ~result.ok
        /\ result.val = <<>>
        /\ result.err.kind = "status"
        /\ result.err.status = Some(net.status)

\* C2: on a successful fetch get_canteen_by_id(x) returns absent exactly when
\* no canteen of L has id x, and otherwise the first canteen of L with id x.
C2_ByIdFirstMatch ==
    (Done("get_canteen_by_id") /\ Fetched.ok) =>
        LET L == Fetched.val
            x == args
            r == result.val
        IN /\ result.ok
           /\ Len(r) <= 1
           /\ (r = None) <=> (\A i \in DOMAIN L : L[i].id # x)
           /\ r # None =>
                /\ r[1].id = x
                /\ \E i \in DOMAIN L :
                     /\ L[i] = r[1]
                     /\ \A j \in 1..(i - 1) : L[j].id # x

C2_Witness ==
    /\ Done("get_canteen_by_id") /\ Fetched.ok
    /\ Len(Fetched.val) = 2
    /\ Fetched.val[1].id = args /\ Fetched.val[2].id = args
    /\ Fetched.val[1] # Fetched.val[2]
    /\ result.val = Some(Fetched.val[1])

\* C3: when the ids of L are pairwise distinct, get_canteens_by_ids(S) returns
\* canteens of L whose ids are exactly S intersected with the ids of L, none
\* twice, in the relative order of L.
C3_ByIdsIntersection ==
    (Done("get_canteens_by_ids") /\ Fetched.ok /\ DistinctIds(Fetched.val)) =>
        LET L == Fetched.val
            S == {args[i] : i \in DOMAIN args}
            R == result.val
            At(c) == CHOOSE k \in DOMAIN L : L[k] = c
        IN /\ result.ok
           /\ {R[i].id : i \in DOMAIN R} = S \cap {L[i].id : i \in DOMAIN L}
           /\ \A i \in DOMAIN R : \E k \in DOMAIN L : L[k] = R[i]
           /\ \A i, j \in DOMAIN R : i # j => R[i] # R[j]
           /\ \A i, j \in DOMAIN R : i < j => At(R[i]) < At(R[j])

C3_Witness ==
    /\ Done("get_canteens_by_ids") /\ Fetched.ok
    /\ args = <<2, 1>>
    /\ Len(Fetched.val) = 2
    /\ Fetched.val[1].id = 1 /\ Fetched.val[2].id = 2
    /\ result.val = Fetched.val

EmptyArray == [kind |-> "array", items |-> <<>>]

C7_ExactlyOneRequest ==
    pc = "done" =>
        /\ Len(sent) = 1
        /\ sent[1].method = "GET"
        /\ op = "get_meals" =>
             sent[1].url = <<"https://openmensa.org/api/v2/canteens/",
                             args.canteen.id, "/days/", args.date, "/meals">>
        /\ op # "get_meals" =>
             sent[1].url = <<"https://openmensa.org/api/v2/canteens">>
        /\ ~FetchedFor.ok => ~result.ok

C7_Witness ==
    /\ Done("get_meals")
    /\ net.transport = "error"
    /\ Len(sent) = 1
    /\ ~result.ok

\* The keys a record type requires in a JSON object
RequiredKeys(T) ==
    IF T = "Meal" THEN {"id", "name", "category", "prices", "notes"}
    ELSE {"id", "name", "city", "address"}

Conforms(T, body) ==
    /\ body.kind = "array"
    /\ \A i \in DOMAIN body.items : \A k \in RequiredKeys(T) : body.items[i][k] # None

ExpectedType == IF op = "get_meals" THEN "Meal" ELSE "Canteen"

\* C8: a successful-status body that is not JSON, or not an array of complete
\* records of the expected type, yields a decode error (neither a transport
\* nor a status error) and no record at all.
C8_DecodeFailure ==
    (pc = "done" /\ net.transport = "ok" /\ IsSuccess(net.status)
        /\ ~Conforms(ExpectedType, net.body)) =>
        /\ ~result.ok
        /\ result.val = <<>>
        /\ result.err.kind = "decode"
        /\ result.err.kind \notin {"transport", "status"}

C8_Witness ==
    /\ Done("get_meals")
    /\ net.transport = "ok" /\ net.status = 200
    /\ net.body.kind = "array" /\ Len(net.body.items) = 2
    /\ Conforms("Meal", [kind |-> "array", items |-> <<net.body.items[1]>>])
    /\ net.body.items[2].name = None
    /\ net.body.items[2].category # None
    /\ result = Err(DecodeError)

\* C9: on a successful fetch the names / city / cities queries return exactly
\* the canteens of L whose raw name, respectively city, equals (as a whole
\* string, case included) a requested one, once per occurrence, in L's order.
C9_ExactFilter ==
    (pc = "done" /\ Fetched.ok) =>
        LET L == Fetched.val
            ByNames == {i \in DOMAIN L : \E k \in DOMAIN args : args[k] = L[i].name}
            ByCity == {i \in DOMAIN L : L[i].city = args}
            ByCities == {i \in DOMAIN L : \E k \in DOMAIN args : args[k] = L[i].city}
        IN /\ op = "get_canteens_by_names" =>
                result.ok /\ IsFiltered(L, ByNames, result.val)
           /\ op = "get_canteens_by_location" =>
                result.ok /\ IsFiltered(L, ByCity, result.val)
           /\ op = "get_canteens_by_locations" =>
                result.ok /\ IsFiltered(L, ByCities, result.val)

C9_Witness ==
    /\ Done("get_canteens_by_locations") /\ Fetched.ok
    /\ args = <<"Dresden">>
    /\ Len(Fetched.val) = 2
    /\ Fetched.val[1].city = "dresden" /\ Fetched.val[2].city = "Dresden"
    /\ result.val = <<Fetched.val[2]>>

\* An Option and a list agree: present exactly when the list is non-empty,
\* and then equal to its first element
AgreesWithFirst(o, l) ==
    /\ (o # None) <=> (l # <<>>)
    /\ o # None => o[1] = l[1]

\* C10: the single-item queries agree with the multi-item queries called
\* with the one-element vector, on the same upstream answer.
C10_SingleAgreesWithMulti ==
    /\ Done("get_canteen_by_id") =>
          LET m == get_canteens_by_ids(<<args>>, net).result
          IN /\ result.ok = m.ok
             /\ result.ok => AgreesWithFirst(result.val, m.val)
    /\ Done("get_canteen_by_name") =>
          LET m == get_canteens_by_names(<<args>>, net).result
          IN /\ result.ok = m.ok
             /\ result.ok => AgreesWithFirst(result.val, m.val)
             /\ (result.ok /\ result.val # None) =>
                   \E i \in DOMAIN Fetched.val :
                      /\ Fetched.val[i] = result.val[1]
                      /\ \A j \in 1..(i - 1) : Fetched.val[j].name # args
    /\ Done("get_canteens_by_location") =>
          result = get_canteens_by_locations(<<args>>, net).result

C10_Witness ==
    /\ Done("get_canteen_by_name") /\ Fetched.ok
    /\ Len(Fetched.val) = 2
    /\ Fetched.val[1].name = args /\ Fetched.val[2].name = args
    /\ Fetched.val[1] # Fetched.val[2]
    /\ result.val = Some(Fetched.val[1])
    /\ get_canteens_by_names(<<args>>, net).result.val = Fetched.val

====
